---- MODULE Spec2Model ----
(***************************************************************************)
(* Kites: the extension lifecycle of KitesInstance (engine/kites.ts) and   *)
(* ExtensionsManager (extensions-manager.ts).                              *)
(*                                                                         *)
(* The model follows the JavaScript run-to-completion semantics: a         *)
(* synchronous block of code is one action, every promise reaction is a    *)
(* job of the FIFO microtask queue, and I/O completions (the discovery     *)
(* scan, the asynchronous part of an entry point, a deferred initializer)  *)
(* are macrotasks that run only when the microtask queue is empty.         *)
(***************************************************************************)
EXTENDS Integers, Sequences, FiniteSets, TLC

\* ------------------------------------------------------------------ bounds
MaxUsed == 2          \* use() calls made on one instance
MaxInits == 2         \* init() calls made on one instance
MaxListeners == 1     \* deferred initializers added to initializeListeners
MaxAsync == 1         \* entry points of one init() that return a pending promise
MaxReady == 2         \* ready() calls made on one instance

\* ------------------------------------------------------- descriptors (input)
\* The extension descriptors of the application: 1 and 2 are handed to use(),
\* 3 is declared by a kites.config.js file under the application directory.
Names == <<"Logging", "Router", "Auth">>
Ext == 1..Len(Names)
UsePool == {1, 2}
Name(d) == Names[d]
Directory(d) == IF d = 3 THEN "app/auth" ELSE "app"

EmptyOpts == [k \in {} |-> FALSE]

\* extension.options as written by the extension's author
DefaultOptions(d) ==
  CASE d = 1 -> [port |-> 1]
    [] d = 2 -> [enabled |-> TRUE, port |-> 1]
    [] OTHER -> [enabled |-> FALSE]

AppDirectory == "app"
Undefined == <<"u">>

\* JavaScript values of mixed type (options.discover and its array elements)
JsBool(b) == <<"b", b>>
JsNum(n) == <<"n", n>>
JsStr(s) == <<"s", s>>
JsArr(a) == <<"a", a>>

Truthy(v) ==
  CASE v[1] = "b" -> v[2]
    [] v[1] = "n" -> v[2] # 0
    [] v[1] = "s" -> v[2] # ""
    [] v[1] = "a" -> TRUE
    [] OTHER -> FALSE

\* String.prototype.toLowerCase on the names of the model
ToLowerCase(s) ==
  CASE s = "Logging" -> "logging"
    [] s = "Router" -> "router"
    [] s = "Auth" -> "auth"
    [] OTHER -> s

\* ---------------------------------------------------------- inputs of Init
\* per-extension namespaces of the runtime configuration
Configs ==
  { <<>>,
    ("logging" :> [enabled |-> FALSE]) @@ ("router" :> [port |-> 2])
       @@ ("Auth" :> [enabled |-> TRUE]) @@ ("auth" :> [enabled |-> TRUE, port |-> 2]) }

\* options.extensions: absent, or an allow-list of names
AllowLists == { Undefined, <<"Logging", "Auth">> }

\* dependencies of each descriptor
DepGraphs ==
  { [d \in Ext |-> CASE d = 2 -> {"Logging"} [] d = 3 -> {"Router", "Missing"} [] OTHER -> {}],
    [d \in Ext |-> CASE d = 1 -> {"Router"} [] d = 2 -> {"Logging"} [] OTHER -> {}] }

\* loadConfig and configFile as given to the constructor ("" is no configFile)
ConfigFileSettings ==
  { [loadConfig |-> FALSE, configFile |-> ""],
    [loadConfig |-> TRUE, configFile |-> ""],
    [loadConfig |-> TRUE, configFile |-> "app.json"] }

\* KitesInstance.configFileName (env is 'development') and defaultConfigFile
ConfigFileName == "dev.config.json"
DefaultConfigFile == "kites.config.json"

\* the configuration files fs.existsSync can find when init() is called
FileSystems == { {}, {"app.json"}, {"kites.config.json"} }

\* the callbacks handed to afterConfigLoaded() and the paths handed to discover()
ConfigCallbacks == {"f1", "f2"}
DiscoverPaths == {"plugins"}

VARIABLES
  options,               \* KitesInstance.options
  dependencies,          \* extension.dependencies of every descriptor
  extOptions,            \* extension.options of every descriptor
  usedExtensions,        \* ExtensionsManager.usedExtensions
  availableExtensions,   \* ExtensionsManager.availableExtensions
  initializeListeners,   \* KitesInstance.initializeListeners (registration order)
  initialized,           \* KitesInstance.initialized
  isReady,               \* KitesInstance.isReady has resolved
  microtasks,            \* the promise job queue
  pc,                    \* where the running KitesInstance.init() is suspended
  all,                   \* the Promise.all of useMany and the promise of init()
  inits,                 \* init() calls made so far
  initResult,            \* outcome of the last KitesInstance.init() call
  act,                   \* per position of availableExtensions: the useOne call
  invoked,               \* positions whose entry point was invoked, in order
  registered,            \* payloads of 'extension:registered', in order
  fired,                 \* deferred initializers invoked by fire(), in order
  emitted,               \* 'initialized' events emitted so far
  candidates,            \* discovered + used descriptors of the last init()
  fnAfterConfigLoaded,   \* KitesInstance.fnAfterConfigLoaded
  lastAssigned,          \* the callback of the most recent afterConfigLoaded() call
  configLog,             \* what _initOptions did in the last init(), in order
  readyCallbacks,        \* reactions added to isReady by ready()
  readyCalled,           \* ready() callbacks invoked so far, by registration number
  observed,              \* isInitialized as the listeners of 'initialized' last saw it
  discoverSetting        \* the discover value last given to the constructor or to
                         \* discover(), recorded for the applications of ApiInit

vars == << options, dependencies, extOptions, usedExtensions, availableExtensions,
           initializeListeners, initialized, isReady, microtasks, pc, all, inits,
           initResult, act, invoked, registered, fired, emitted, candidates,
           fnAfterConfigLoaded, lastAssigned, configLog, readyCallbacks, readyCalled,
           observed, discoverSetting >>

\* the state of the public API around the extension lifecycle
apiVars == << fnAfterConfigLoaded, lastAssigned, configLog, readyCallbacks,
              readyCalled, observed, discoverSetting >>

NoError == [name |-> "", directory |-> "", detail |-> ""]

Range(s) == { s[i] : i \in DOMAIN s }

\* ------------------------------------------------------------- pure helpers
\* lodash _.assign({}, a, b): own keys of b override those of a
AssignDefaultsWin(a, b) ==
  [k \in DOMAIN a \cup DOMAIN b |-> IF k \in DOMAIN a THEN a[k] ELSE b[k]]

Assign(a, b) ==
  [k \in DOMAIN a \cup DOMAIN b |-> IF k \in DOMAIN b THEN b[k] ELSE a[k]]

\* this.kites.options[extension.name && extension.name.toLowerCase()]
Namespace(opts, d) ==
  LET key == IF Name(d) = "" THEN "undefined" ELSE ToLowerCase(Name(d))
  IN IF key \in DOMAIN opts.ns THEN opts.ns[key] ELSE EmptyOpts

\* options.enabled === false
IsDisabled(o) == "enabled" \in DOMAIN o /\ o["enabled"] = FALSE

\* the message built by the catch handler of useOne
ErrorMsg(d, detail) ==
  IF Name(d) = ""
    THEN [name |-> "anonymous", directory |-> Directory(d), detail |-> detail]
    ELSE [name |-> Name(d), directory |-> "", detail |-> detail]

\* Dependency Sorter: topological order, ties and cycles in input order,
\* dependencies on names that are not in the list are ignored.
Blocked(rem, k) ==
  \E m \in DOMAIN rem : m # k /\ Name(rem[m]) # Name(rem[k])
                        /\ Name(rem[m]) \in dependencies[rem[k]]

RemoveAt(s, k) == SubSeq(s, 1, k - 1) \o SubSeq(s, k + 1, Len(s))

RECURSIVE SortRec(_, _)
SortRec(rem, out) ==
  IF rem = <<>> THEN out
  ELSE LET ready == { k \in DOMAIN rem : ~Blocked(rem, k) }
           k == IF ready = {} THEN 1
                ELSE CHOOSE x \in ready : \A y \in ready : x <= y
       IN SortRec(RemoveAt(rem, k), Append(out, rem[k]))

sorter(list) == SortRec(list, <<>>)

\* Discovery Scanner: the descriptors declared under the given roots
Disk(root) == IF root = JsStr(AppDirectory) THEN <<3>> ELSE <<>>

RECURSIVE discover(_)
discover(roots) ==
  IF roots = <<>> THEN <<>> ELSE Disk(Head(roots)) \o discover(Tail(roots))

\* ------------------------------------------------------------------- Init
\* the instance as the constructor leaves it, for the given options
Constructed ==
  /\ extOptions = [d \in Ext |-> DefaultOptions(d)]
  /\ usedExtensions = <<>>
  /\ availableExtensions = <<>>
  /\ initializeListeners = <<>>
  /\ initialized = FALSE
  /\ isReady = FALSE
  /\ microtasks = <<>>
  /\ pc = "idle"
  /\ all = [state |-> "none", remaining |-> 0, err |-> NoError, thenReg |-> FALSE]
  /\ inits = 0
  /\ initResult = [st |-> "none", err |-> NoError]
  /\ act = <<>>
  /\ invoked = <<>>
  /\ registered = <<>>
  /\ fired = <<>>
  /\ emitted = 0
  /\ candidates = <<>>
  /\ fnAfterConfigLoaded = "default"
  /\ lastAssigned = "default"
  /\ configLog = <<>>
  /\ readyCallbacks = 0
  /\ readyCalled = <<>>
  /\ observed = "none"

Init ==
  /\ options \in { [discover |-> JsBool(b), extensions |-> al, ns |-> c,
                     appDirectory |-> AppDirectory, rootDirectory |-> "root",
                     loadConfig |-> FALSE, configFile |-> ""] :
                   b \in BOOLEAN, al \in AllowLists, c \in Configs }
  /\ dependencies \in DepGraphs
  /\ Constructed
  /\ discoverSetting = Undefined

\* A promise job: the reaction k of the useOne call at position i (0: of init()),
\* run after n more jobs in which a promise adopts another one or a reaction
\* without a handler passes its value on; err is the reason of a rejection.
Job(k, i, n) == [k |-> k, i |-> i, n |-> n, err |-> NoError]

\* The queue up to its next job that runs code: a job that only passes a value
\* on goes to the back of the queue, one step closer to its reaction.
RECURSIVE Rotate(_)
Rotate(q) ==
  IF q = <<>> \/ Head(q).n = 0 THEN q
  ELSE Rotate(Append(Tail(q), [Head(q) EXCEPT !.n = Head(q).n - 1]))

\* ---------------------------------------------------------- KitesInstance
\* KitesInstance.use -> ExtensionsManager.use with a descriptor
Use(d) ==
  /\ pc = "idle" /\ microtasks = <<>>
  /\ Len(usedExtensions) < MaxUsed
  /\ usedExtensions' = Append(usedExtensions, d)
  /\ UNCHANGED << options, dependencies, extOptions, availableExtensions,
                  initializeListeners, initialized, isReady, microtasks, pc, all,
                  inits, initResult, act, invoked, registered, fired, emitted,
                  candidates >>
  /\ UNCHANGED apiVars

\* ------------------------------------------------------ ExtensionsManager
\* init(): the three forms of options.discover become [flag, depth, root]
NormalizeDiscover(opts) ==
  LET v == opts.discover
  IN CASE v = JsStr("undefined") -> JsArr(<<JsBool(FALSE), JsNum(0)>>)
       [] v[1] = "b" -> JsArr(<<v, JsNum(2), JsStr(opts.appDirectory)>>)
       [] v[1] = "s" -> JsArr(<<JsBool(TRUE), JsNum(2), v>>)
       [] OTHER -> v

\* Array.prototype.shift: the removed element and the array left behind
ShiftValue(a) == IF a[2] = <<>> THEN Undefined ELSE Head(a[2])
ShiftRest(a) == IF a[2] = <<>> THEN a ELSE JsArr(Tail(a[2]))

\* init(): the candidates kept by the allow-list options.extensions
FilterAllowedOff(opts, cand) == cand

FilterAllowed(opts, cand) ==
  IF opts.extensions = Undefined THEN cand
  ELSE SelectSeq(cand, LAMBDA d : Name(d) \in Range(opts.extensions))

\* init(): concat, filter, sort
ActivationListUnsorted(opts, discovered) ==
  FilterAllowed(opts, discovered \o usedExtensions)

ActivationListAcyclic(opts, discovered) ==
  LET l == FilterAllowed(opts, discovered \o usedExtensions)
      mutual(d) == \E m \in Range(l) : /\ m # d
                                       /\ Name(m) \in dependencies[d]
                                       /\ Name(d) \in dependencies[m]
  IN sorter(SelectSeq(l, LAMBDA d : ~mutual(d)))

ActivationList(opts, discovered) ==
  sorter(FilterAllowed(opts, discovered \o usedExtensions))

\* useOne(): the merged options and the skip decision
UseOneOptions(opts, o, d) == Assign(o, Namespace(opts, d))

UseOneSkipsNever(o) == FALSE

UseOneSkips(o) == IsDisabled(o)

\* useMany(): every useOne call runs its synchronous part inside map(), then
\* Promise.all subscribes to the returned promises; init() returns that promise.
UseMany(opts, discovered) ==
  LET list == ActivationList(opts, discovered)
      merged(i) == UseOneOptions(opts, extOptions[list[i]], list[i])
      pos == 1..Len(list)
      idx == [i \in pos |-> i]
      then1 == SelectSeq(idx, LAMBDA i : ~UseOneSkips(merged(i)))
      skipped == SelectSeq(idx, LAMBDA i : UseOneSkips(merged(i)))
  IN /\ candidates' = discovered \o usedExtensions
     /\ availableExtensions' = list
     /\ extOptions' = [d \in Ext |->
                         IF d \in Range(list)
                           THEN UseOneOptions(opts, extOptions[d], d)
                           ELSE extOptions[d]]
     /\ act' = [i \in pos |->
                  [ext |-> list[i], merged |-> merged(i),
                   st |-> IF UseOneSkips(merged(i)) THEN "skipped" ELSE "pending",
                   outcome |-> "none", asyncOp |-> "none", with |-> EmptyOpts,
                   opts |-> merged(i)]]
     /\ microtasks' = Rotate([i \in 1..Len(then1) |-> Job("then1", then1[i], 0)]
                              \o [i \in 1..Len(skipped) |-> Job("allElem", skipped[i], 0)]
                              \o << Job("mgrThenable", 0, 0) >>)
     /\ all' = [state |-> IF list = <<>> THEN "fulfilled" ELSE "pending",
                remaining |-> Len(list), err |-> NoError, thenReg |-> FALSE]

\* _loadConfig(): a configFile is named and fs.existsSync does not find it
LoadConfigThrowsNever(opts, present) == FALSE

LoadConfigThrows(opts, present) ==
  opts.configFile # "" /\ opts.configFile \notin present

\* _loadConfig(): what the lookup of the configuration file found
Lookup(opts, present) ==
  IF opts.configFile # "" /\ opts.configFile \notin present THEN "missing" ELSE "load"

\* _loadConfig(): the options after the lookup; the file itself holds no key of
\* the modelled options, which nconf keeps as its defaults
LoadConfig(opts, present) ==
  IF opts.configFile # "" THEN opts
  ELSE [opts EXCEPT !.configFile =
          IF ConfigFileName \in present THEN ConfigFileName
          ELSE IF DefaultConfigFile \in present THEN DefaultConfigFile
          ELSE ConfigFileName]

\* new Error('Config file ' + configFile + ' was not found.')
ConfigError(opts) == [name |-> "config", directory |-> "", detail |-> opts.configFile]

\* KitesInstance.init() up to its first suspension: _initOptions(), then
\* ExtensionsManager.init() runs synchronously until `await discover(...)`, or
\* to its end. A throw of _loadConfig() rejects the promise of init().
KitesInit ==
  /\ pc = "idle" /\ microtasks = <<>>
  /\ inits < MaxInits
  /\ inits' = inits + 1
  /\ invoked' = <<>> /\ registered' = <<>> /\ fired' = <<>>
  /\ \E present \in (IF options.loadConfig THEN FileSystems ELSE {{}}) :
       IF options.loadConfig /\ LoadConfigThrows(options, present)
         THEN /\ initResult' = [st |-> "rejected", err |-> ConfigError(options)]
              /\ configLog' = << Lookup(options, present) >>
              /\ act' = <<>> /\ candidates' = <<>>
              /\ all' = [state |-> "none", remaining |-> 0, err |-> NoError,
                         thenReg |-> FALSE]
              /\ UNCHANGED << options, pc, availableExtensions, extOptions,
                              microtasks >>
         ELSE LET loaded == IF options.loadConfig THEN LoadConfig(options, present)
                                                  ELSE options
                  arr == NormalizeDiscover(loaded)
                  autodiscover == ShiftValue(arr)
                  rest == ShiftRest(arr)
              IN /\ initResult' = [st |-> "pending", err |-> NoError]
                 /\ configLog' = IF options.loadConfig
                                   THEN << Lookup(options, present), fnAfterConfigLoaded >>
                                   ELSE <<>>
                 /\ IF Truthy(autodiscover)
                      THEN /\ options' = [loaded EXCEPT !.discover = ShiftRest(rest)]
                           /\ pc' = "discovering"
                           /\ availableExtensions' = <<>>
                           /\ act' = <<>>
                           /\ candidates' = <<>>
                           /\ all' = [state |-> "none", remaining |-> 0,
                                      err |-> NoError, thenReg |-> FALSE]
                           /\ UNCHANGED << extOptions, microtasks >>
                      ELSE /\ options' = [loaded EXCEPT !.discover = rest]
                           /\ pc' = "activating"
                           /\ UseMany(options', <<>>)
  /\ UNCHANGED << dependencies, usedExtensions, initializeListeners, initialized,
                  isReady, emitted, fnAfterConfigLoaded, lastAssigned, readyCallbacks,
                  readyCalled, observed, discoverSetting >>

\* the scan of `await discover(...)` completes; init() runs to its end
DiscoverDone ==
  /\ pc = "discovering" /\ microtasks = <<>>
  /\ pc' = "activating"
  /\ UseMany(options, discover(options.discover[2]))
  /\ UNCHANGED << options, dependencies, usedExtensions, initializeListeners,
                  initialized, isReady, inits, initResult, invoked, registered,
                  fired, emitted >>
  /\ UNCHANGED apiVars

\* ------------------------------------------------------- the promise jobs
HeadIs(k) == microtasks # <<>> /\ Head(microtasks).k = k /\ Head(microtasks).n = 0

\* what an entry point can do when it is called
Outcomes == {"ok", "okReg", "throw", "async"}

AsyncStarted == Cardinality({ j \in DOMAIN act : act[j].outcome = "async" })

\* what an entry point does to the objects it is handed: it may set
\* extension.options.enabled = false on its own descriptor, or disable the
\* configuration namespace of another extension (that of Router in the model)
WriteTarget == 2

SetDisabled(o) == Assign(o, [enabled |-> FALSE])

WriteNamespace(opts) ==
  [opts EXCEPT !.ns = (ToLowerCase(Name(WriteTarget)) :>
                         SetDisabled(Namespace(opts, WriteTarget))) @@ opts.ns]

\* extension.options is the object merged by the last useOne call of the
\* descriptor in this init()
LastPos(d) ==
  CHOOSE i \in DOMAIN act :
    act[i].ext = d /\ \A j \in DOMAIN act : act[j].ext = d => j <= i

\* the reaction that follows the first then() callback: a throw reaches the
\* catch handler through one reaction without a handler, a returned promise is
\* adopted in two jobs first
ReactionShapeIgnored(o, i) ==
  IF o = "throw" THEN Job("catch", i, 1) ELSE Job("then2", i, 2)

Reaction(o, i) ==
  CASE o = "throw" -> Job("catch", i, 1)
    [] o = "invalid" -> Job("catch", i, 3)
    [] OTHER -> Job("then2", i, 2)

\* a descriptor has a usable entry point or not for all its useOne calls
ShapeAllows(o, d) ==
  \A j \in DOMAIN act :
    (act[j].ext = d /\ act[j].outcome # "none")
      => ((o = "invalid") <=> (act[j].outcome = "invalid"))

\* extension.options as the entry point finds it
OptionsAtCallRemerged(d) == Assign(extOptions[d], Namespace(options, d))

OptionsAtCall(d) == extOptions[d]

\* useOne(), first then(): the entry point is called with (kites, extension);
\* what it returns is dropped and the callback returns Promise.resolve(). A
\* descriptor without a usable entry point makes it return Promise.reject(string)
Then1(o) ==
  /\ HeadIs("then1")
  /\ LET i == Head(microtasks).i
         d == act[i].ext
         called == [act EXCEPT ![i].outcome = IF o = "okReg" THEN "ok" ELSE o,
                               ![i].with = OptionsAtCall(d),
                               ![i].asyncOp = IF o = "async" THEN "pending" ELSE "none"]
     IN /\ o = "okReg" => Len(initializeListeners) < MaxListeners
        /\ o = "async" => AsyncStarted < MaxAsync
        /\ o = "write" => d # WriteTarget
        /\ ShapeAllows(o, d)
        /\ invoked' = IF o = "invalid" THEN invoked ELSE Append(invoked, i)
        /\ act' = IF o = "disable"
                    THEN [called EXCEPT ![LastPos(d)].opts = SetDisabled(@)]
                    ELSE called
        /\ extOptions' = IF o = "disable"
                           THEN [extOptions EXCEPT ![d] = SetDisabled(@)]
                           ELSE extOptions
        /\ options' = IF o = "write" THEN WriteNamespace(options) ELSE options
        /\ initializeListeners' =
             IF o = "okReg"
               THEN Append(initializeListeners, "fn")
               ELSE initializeListeners
        /\ microtasks' = Rotate(Append(Tail(microtasks), Reaction(o, i)))
  /\ UNCHANGED << dependencies, usedExtensions, availableExtensions, initialized,
                  isReady, pc, all, inits, initResult, registered, fired, emitted,
                  candidates >>
  /\ UNCHANGED apiVars

\* useOne(), second then(): 'extension:registered' unless options.enabled === false
Then2 ==
  /\ HeadIs("then2")
  /\ LET i == Head(microtasks).i
         d == act[i].ext
     IN /\ registered' = IF IsDisabled(act[i].opts) THEN registered
                                                   ELSE Append(registered, d)
        /\ act' = [act EXCEPT ![i].st = "ok"]
        /\ microtasks' = Rotate(Append(Tail(microtasks), Job("allElem", i, 1)))
  /\ UNCHANGED << options, dependencies, extOptions, usedExtensions,
                  availableExtensions, initializeListeners, initialized, isReady, pc,
                  all, inits, initResult, invoked, fired, emitted, candidates >>
  /\ UNCHANGED apiVars

\* useOne(), catch(): log the message and throw new Error(errorMsg)
Catch ==
  /\ HeadIs("catch")
  /\ LET i == Head(microtasks).i
     IN /\ act' = [act EXCEPT ![i].st = "failed"]
        /\ microtasks' = Rotate(Append(Tail(microtasks),
                                 [Job("allReject", i, 0) EXCEPT
                                    !.err = ErrorMsg(act[i].ext,
                                              IF act[i].outcome = "invalid"
                                                THEN "undefined" ELSE "stack")]))
  /\ UNCHANGED << options, dependencies, extOptions, usedExtensions,
                  availableExtensions, initializeListeners, initialized, isReady, pc,
                  all, inits, initResult, invoked, registered, fired, emitted,
                  candidates >>
  /\ UNCHANGED apiVars

\* the promise of ExtensionsManager.init() follows the settled Promise.all one
\* job later, and the await of KitesInstance.init() resumes one job after that
ResumeJob(state, thenReg) ==
  IF state # "pending" /\ thenReg THEN << Job("resume", 0, 1) >> ELSE <<>>

\* Promise.all: one input promise is fulfilled
AllElem ==
  /\ HeadIs("allElem")
  /\ LET left == all.remaining - 1
         state == IF all.state = "pending" /\ left = 0 THEN "fulfilled" ELSE all.state
     IN /\ all' = [all EXCEPT !.remaining = left, !.state = state]
        /\ microtasks' = Rotate(Tail(microtasks) \o
             (IF all.state = "pending" THEN ResumeJob(state, all.thenReg) ELSE <<>>))
  /\ UNCHANGED << options, dependencies, extOptions, usedExtensions,
                  availableExtensions, initializeListeners, initialized, isReady, pc,
                  inits, initResult, act, invoked, registered, fired, emitted,
                  candidates >>
  /\ UNCHANGED apiVars

\* Promise.all: one input promise is rejected; the first rejection wins
AllReject ==
  /\ HeadIs("allReject")
  /\ LET i == Head(microtasks).i
     IN IF all.state = "pending"
          THEN /\ all' = [all EXCEPT !.state = "rejected", !.err = Head(microtasks).err]
               /\ microtasks' = Rotate(Tail(microtasks)
                                        \o ResumeJob("rejected", all.thenReg))
          ELSE /\ all' = all
               /\ microtasks' = Rotate(Tail(microtasks))
  /\ UNCHANGED << options, dependencies, extOptions, usedExtensions,
                  availableExtensions, initializeListeners, initialized, isReady, pc,
                  inits, initResult, act, invoked, registered, fired, emitted,
                  candidates >>
  /\ UNCHANGED apiVars

\* ExtensionsManager.init() returned the Promise.all promise: its own promise
\* follows it
MgrThenable ==
  /\ HeadIs("mgrThenable")
  /\ all' = [all EXCEPT !.thenReg = TRUE]
  /\ microtasks' = Rotate(Tail(microtasks) \o ResumeJob(all.state, TRUE))
  /\ UNCHANGED << options, dependencies, extOptions, usedExtensions,
                  availableExtensions, initializeListeners, initialized, isReady, pc,
                  inits, initResult, act, invoked, registered, fired, emitted,
                  candidates >>
  /\ UNCHANGED apiVars

ResumeResets ==
  /\ HeadIs("resume")
  /\ IF all.state = "rejected"
       THEN /\ initResult' = [st |-> "rejected", err |-> all.err]
            /\ initialized' = FALSE
            /\ pc' = "idle"
            /\ microtasks' = Rotate(Tail(microtasks))
            /\ fired' = fired
       ELSE /\ initResult' = initResult
            /\ initialized' = initialized
            /\ IF initializeListeners = <<>>
                 THEN /\ pc' = "finishing"
                      /\ microtasks' = Rotate(Append(Tail(microtasks), Job("finish", 0, 0)))
                      /\ fired' = fired
                 ELSE /\ pc' = "firing"
                      /\ microtasks' = Rotate(Tail(microtasks))
                      /\ fired' = << 1 >>
  /\ UNCHANGED << options, dependencies, extOptions, usedExtensions,
                  availableExtensions, initializeListeners, isReady, all,
                  inits, act, invoked, registered, emitted, candidates >>
  /\ UNCHANGED apiVars

\* KitesInstance.init() after `await this.extensionsManager.init()`: a rejection
\* leaves init(); otherwise initializeListeners.fire() calls the first initializer
ResumeNoFire ==
  /\ HeadIs("resume")
  /\ IF all.state = "rejected"
       THEN /\ initResult' = [st |-> "rejected", err |-> all.err]
            /\ pc' = "idle"
            /\ microtasks' = Rotate(Tail(microtasks))
       ELSE /\ initResult' = initResult
            /\ pc' = "finishing"
            /\ microtasks' = Rotate(Append(Tail(microtasks), Job("finish", 0, 0)))
  /\ UNCHANGED << options, dependencies, extOptions, usedExtensions,
                  availableExtensions, initializeListeners, initialized, isReady, all,
                  inits, act, invoked, registered, fired, emitted, candidates >>
  /\ UNCHANGED apiVars

ResumeSwallows ==
  /\ HeadIs("resume")
  /\ initResult' = initResult
  /\ IF initializeListeners = <<>>
       THEN /\ pc' = "finishing"
            /\ microtasks' = Rotate(Append(Tail(microtasks), Job("finish", 0, 0)))
            /\ fired' = fired
       ELSE /\ pc' = "firing"
            /\ microtasks' = Rotate(Tail(microtasks))
            /\ fired' = << 1 >>
  /\ UNCHANGED << options, dependencies, extOptions, usedExtensions,
                  availableExtensions, initializeListeners, initialized, isReady, all,
                  inits, act, invoked, registered, emitted, candidates >>
  /\ UNCHANGED apiVars

Resume ==
  /\ HeadIs("resume")
  /\ IF all.state = "rejected"
       THEN /\ initResult' = [st |-> "rejected", err |-> all.err]
            /\ pc' = "idle"
            /\ microtasks' = Rotate(Tail(microtasks))
            /\ fired' = fired
       ELSE /\ initResult' = initResult
            /\ IF initializeListeners = <<>>
                 THEN /\ pc' = "finishing"
                      /\ microtasks' = Rotate(Append(Tail(microtasks), Job("finish", 0, 0)))
                      /\ fired' = fired
                 ELSE /\ pc' = "firing"
                      /\ microtasks' = Rotate(Tail(microtasks))
                      /\ fired' = << 1 >>
  /\ UNCHANGED << options, dependencies, extOptions, usedExtensions,
                  availableExtensions, initializeListeners, initialized, isReady, all,
                  inits, act, invoked, registered, emitted, candidates >>
  /\ UNCHANGED apiVars

\* fire(): the awaited initializer completes; the next one is called, or fire()
\* returns
ListenerDone ==
  /\ pc = "firing" /\ microtasks = <<>>
  /\ IF Len(fired) < Len(initializeListeners)
       THEN /\ fired' = Append(fired, Len(fired) + 1)
            /\ UNCHANGED << pc, microtasks >>
       ELSE /\ pc' = "finishing"
            /\ microtasks' = << Job("finish", 0, 0) >>
            /\ fired' = fired
  /\ UNCHANGED << options, dependencies, extOptions, usedExtensions,
                  availableExtensions, initializeListeners, initialized, isReady, all,
                  inits, initResult, act, invoked, registered, emitted, candidates >>
  /\ UNCHANGED apiVars

\* KitesInstance.init() after `await this.initializeListeners.fire()`:
\* emit('initialized') runs its listeners (the resolve of isReady, which queues
\* the ready() callbacks, and those of the application), then initialized = true
Finish ==
  /\ HeadIs("finish")
  /\ microtasks' = Rotate(Tail(microtasks) \o
                            (IF isReady \/ readyCallbacks = 0 THEN <<>>
                             ELSE [k \in 1..readyCallbacks |-> Job("ready", k, 0)]))
  /\ emitted' = emitted + 1
  /\ observed' = IF initialized THEN "true" ELSE "false"
  /\ isReady' = TRUE
  /\ initialized' = TRUE
  /\ initResult' = [st |-> "resolved", err |-> NoError]
  /\ pc' = "idle"
  /\ UNCHANGED << options, dependencies, extOptions, usedExtensions,
                  availableExtensions, initializeListeners, all, inits, act, invoked,
                  registered, fired, candidates, fnAfterConfigLoaded, lastAssigned,
                  configLog, readyCallbacks, readyCalled, discoverSetting >>

\* ready(callback): isReady.then(...); a resolved isReady queues the reaction
ReadySync ==
  /\ microtasks = <<>>
  /\ readyCallbacks < MaxReady
  /\ readyCallbacks' = readyCallbacks + 1
  /\ readyCalled' = IF isReady THEN Append(readyCalled, readyCallbacks + 1)
                               ELSE readyCalled
  /\ UNCHANGED << options, dependencies, extOptions, usedExtensions,
                  availableExtensions, initializeListeners, initialized, isReady, pc,
                  all, inits, initResult, act, invoked, registered, fired, emitted,
                  candidates, fnAfterConfigLoaded, lastAssigned, configLog,
                  microtasks, observed, discoverSetting >>

Ready ==
  /\ microtasks = <<>>
  /\ readyCallbacks < MaxReady
  /\ readyCallbacks' = readyCallbacks + 1
  /\ microtasks' = IF isReady THEN << Job("ready", readyCallbacks + 1, 0) >> ELSE <<>>
  /\ UNCHANGED << options, dependencies, extOptions, usedExtensions,
                  availableExtensions, initializeListeners, initialized, isReady, pc,
                  all, inits, initResult, act, invoked, registered, fired, emitted,
                  candidates, fnAfterConfigLoaded, lastAssigned, configLog,
                  readyCalled, observed, discoverSetting >>

\* the reaction added by ready() calls the callback
ReadyCallback ==
  /\ HeadIs("ready")
  /\ readyCalled' = Append(readyCalled, Head(microtasks).i)
  /\ microtasks' = Rotate(Tail(microtasks))
  /\ UNCHANGED << options, dependencies, extOptions, usedExtensions,
                  availableExtensions, initializeListeners, initialized, isReady, pc,
                  all, inits, initResult, act, invoked, registered, fired, emitted,
                  candidates, fnAfterConfigLoaded, lastAssigned, configLog,
                  readyCallbacks, observed, discoverSetting >>

\* discover(option) with a path string or a boolean
DiscoverArgs == { JsStr(p) : p \in DiscoverPaths } \cup { JsBool(FALSE) }

Discover(v) ==
  /\ pc = "idle" /\ microtasks = <<>>
  /\ options' = IF v[1] = "s"
                  THEN [options EXCEPT !.discover = JsBool(TRUE), !.rootDirectory = v[2]]
                  ELSE [options EXCEPT !.discover = v]
  /\ discoverSetting' = v
  /\ UNCHANGED << dependencies, extOptions, usedExtensions, availableExtensions,
                  initializeListeners, initialized, isReady, microtasks, pc, all,
                  inits, initResult, act, invoked, registered, fired, emitted,
                  candidates, fnAfterConfigLoaded, lastAssigned, configLog,
                  readyCallbacks, readyCalled, observed >>

\* afterConfigLoaded(fn): the callback is assigned
AfterConfigLoadedKeepsFirst(f) ==
  /\ pc = "idle" /\ microtasks = <<>>
  /\ fnAfterConfigLoaded' = IF fnAfterConfigLoaded = "default" THEN f
                                                              ELSE fnAfterConfigLoaded
  /\ lastAssigned' = f
  /\ UNCHANGED << options, dependencies, extOptions, usedExtensions,
                  availableExtensions, initializeListeners, initialized, isReady,
                  microtasks, pc, all, inits, initResult, act, invoked, registered,
                  fired, emitted, candidates, configLog, readyCallbacks, readyCalled,
                  observed, discoverSetting >>

AfterConfigLoaded(f) ==
  /\ pc = "idle" /\ microtasks = <<>>
  /\ fnAfterConfigLoaded' = f
  /\ lastAssigned' = f
  /\ UNCHANGED << options, dependencies, extOptions, usedExtensions,
                  availableExtensions, initializeListeners, initialized, isReady,
                  microtasks, pc, all, inits, initResult, act, invoked, registered,
                  fired, emitted, candidates, configLog, readyCallbacks, readyCalled,
                  observed, discoverSetting >>

\* the operation returned by an entry point settles, long after useOne dropped it
AsyncResults == {"resolved", "resolvedReg", "rejected"}

AsyncSettle(i, r) ==
  /\ microtasks = <<>>
  /\ i \in DOMAIN act /\ act[i].asyncOp = "pending"
  /\ r = "resolvedReg" => Len(initializeListeners) < MaxListeners
  /\ act' = [act EXCEPT ![i].asyncOp = IF r = "rejected" THEN "rejected" ELSE "resolved"]
  /\ initializeListeners' =
       IF r = "resolvedReg"
         THEN Append(initializeListeners, "fn")
         ELSE initializeListeners
  /\ UNCHANGED << options, dependencies, extOptions, usedExtensions,
                  availableExtensions, initialized, isReady, microtasks, pc, all, inits,
                  initResult, invoked, registered, fired, emitted, candidates >>
  /\ UNCHANGED apiVars

Next ==
  \/ \E d \in UsePool : Use(d)
  \/ KitesInit
  \/ DiscoverDone
  \/ \E o \in Outcomes : Then1(o)
  \/ Then2
  \/ Catch
  \/ AllElem
  \/ AllReject
  \/ MgrThenable
  \/ Resume
  \/ ListenerDone
  \/ Finish
  \/ \E i \in DOMAIN act, r \in AsyncResults : AsyncSettle(i, r)

Spec == Init /\ [][Next]_vars

\* ------------------------------------------ the public API around init()
\* Applications whose entry points return synchronously, and which also load a
\* configuration file, wait for readiness, or reconfigure the discovery.
ApiInit(settings) ==
  /\ options \in { [discover |-> JsBool(b), extensions |-> Undefined, ns |-> <<>>,
                     appDirectory |-> AppDirectory, rootDirectory |-> "root",
                     loadConfig |-> c.loadConfig, configFile |-> c.configFile] :
                   b \in BOOLEAN, c \in settings }
  /\ dependencies \in { g \in DepGraphs : g[1] = {} }
  /\ Constructed
  /\ discoverSetting = options.discover

SyncOutcomes == {"ok", "okReg", "throw"}

SyncLifecycle ==
  \/ \E d \in UsePool : Use(d)
  \/ KitesInit
  \/ DiscoverDone
  \/ \E o \in SyncOutcomes : Then1(o)
  \/ Then2
  \/ Catch
  \/ AllElem
  \/ AllReject
  \/ MgrThenable
  \/ Resume
  \/ ListenerDone
  \/ Finish

\* entry points of every kind
EntryOutcomes == SyncOutcomes \cup {"invalid", "disable", "write"}

EntryInit == ApiInit({ c \in ConfigFileSettings : ~c.loadConfig })

EntryNext ==
  \/ SyncLifecycle
  \/ \E o \in EntryOutcomes \ SyncOutcomes : Then1(o)

EntrySpec == EntryInit /\ [][EntryNext]_vars

\* configuration loading and afterConfigLoaded()
ConfigInit == ApiInit(ConfigFileSettings)

ConfigNext ==
  \/ SyncLifecycle
  \/ \E f \in ConfigCallbacks : AfterConfigLoaded(f)

ConfigSpec == ConfigInit /\ [][ConfigNext]_vars

\* ready()
ReadyInit == ApiInit({ c \in ConfigFileSettings : ~c.loadConfig })

ReadyNext ==
  \/ SyncLifecycle
  \/ Ready
  \/ ReadyCallback

ReadySpec == ReadyInit /\ [][ReadyNext]_vars

\* discover()
DiscoverInit == ApiInit({ c \in ConfigFileSettings : ~c.loadConfig })

DiscoverNext ==
  \/ SyncLifecycle
  \/ \E v \in DiscoverArgs : Discover(v)

DiscoverSpec == DiscoverInit /\ [][DiscoverNext]_vars

\* every public operation of the instance, on one used descriptor and the
\* discovered one, with entry points that return or throw
ApiPool == {1}

ApiOutcomes == {"ok", "throw"}

ApiSpecInit == ApiInit(ConfigFileSettings)

ApiNext ==
  \/ \E d \in ApiPool : Use(d)
  \/ KitesInit
  \/ DiscoverDone
  \/ \E o \in ApiOutcomes : Then1(o)
  \/ Then2
  \/ Catch
  \/ AllElem
  \/ AllReject
  \/ MgrThenable
  \/ Resume
  \/ Finish
  \/ Ready
  \/ ReadyCallback
  \/ \E v \in DiscoverArgs : Discover(v)
  \/ \E f \in ConfigCallbacks : AfterConfigLoaded(f)

ApiSpec == ApiSpecInit /\ [][ApiNext]_vars

\* ExtensionsManager.extensions: the available extensions that are not disabled
extensions == SelectSeq(availableExtensions, LAMBDA d : ~IsDisabled(extOptions[d]))

\* ================================================================ properties
Pos == DOMAIN act
InvokedSet == Range(invoked)
InvokedExts == { act[i].ext : i \in InvokedSet }
IndexIn(seq, x) == CHOOSE k \in DOMAIN seq : seq[k] = x
Count(seq, x) == Cardinality({ k \in DOMAIN seq : seq[k] = x })

\* no microtask is left and no init() is running
Quiet == pc = "idle" /\ microtasks = <<>> /\ initResult.st \in {"resolved", "rejected"}

\* every entry point of the current activation list that will run has run
ActivationDone ==
  /\ pc \in {"activating", "firing", "finishing", "idle"} /\ inits > 0
  /\ \A m \in DOMAIN microtasks : microtasks[m].k # "then1"

\* C1: the entry point of a descriptor is not invoked before the activation of
\* every descriptor placed before it has settled, the operation returned by its
\* entry point included.
C1_SequentialActivation ==
  \A i \in Pos, j \in InvokedSet :
    (i < j /\ act[i].ext # act[j].ext)
      => act[i].st # "pending" /\ act[i].asyncOp # "pending"

\* C2: once the entry point of B has thrown, no entry point placed after B is
\* invoked, and init() rejects with an error naming B.
C2_FailFast ==
  /\ \A i \in Pos, j \in InvokedSet :
       (i < j /\ act[i].ext # act[j].ext) => act[i].outcome # "throw"
  /\ \A i \in Pos :
       (Quiet /\ act[i].outcome = "throw" /\ \A h \in 1..(i - 1) : act[h].outcome # "throw")
         => initResult.st = "rejected" /\ initResult.err.name = Name(act[i].ext)

\* C3: in an activation list without a dependency cycle, when the entry point
\* of A is invoked, the entry point of every enabled B of the list that A names
\* in its dependencies has been invoked before.
DependsOn(a, b) == a # b /\ Name(b) \in dependencies[a]

RECURSIVE ReachableWithin(_, _, _)
ReachableWithin(front, nodes, n) ==
  IF n = 0 THEN front
  ELSE ReachableWithin(front \cup { b \in nodes : \E a \in front : DependsOn(a, b) },
                       nodes, n - 1)

HasCycle(nodes) ==
  \E a \in nodes :
    a \in ReachableWithin({ b \in nodes : DependsOn(a, b) }, nodes, Cardinality(nodes))

C4_DisabledSkip ==
  /\ \A i \in Pos :
       IsDisabled(act[i].merged) => i \notin InvokedSet /\ act[i].st = "skipped"
  /\ initResult.st = "rejected" =>
       \E j \in Pos : /\ ~IsDisabled(act[j].merged)
                       /\ act[j].st = "failed"
                       /\ initResult.err.name = Name(act[j].ext)

\* init() resolved with a disabled descriptor placed before an activated one
C4_Witness ==
  /\ initResult.st = "resolved"
  /\ \E i \in Pos, j \in InvokedSet : i < j /\ IsDisabled(act[i].merged)

\* C5: the instance becomes initialized ('initialized' emitted, readiness
\* resolved, isInitialized true, init() resolved) only in a step taken when every
\* descriptor of the activation list has been processed and every deferred
\* initializer has been fired; an init() that resolved has processed them all.
AllProcessed ==
  /\ Len(act) = Len(availableExtensions)
  /\ \A i \in Pos : act[i].st \in {"ok", "skipped"}

AllFired == fired = [k \in DOMAIN initializeListeners |-> k]

BecomesInitialized ==
  \/ ~initialized /\ initialized'
  \/ ~isReady /\ isReady'
  \/ emitted' > emitted
  \/ initResult.st # "resolved" /\ initResult'.st = "resolved"

C6_DeferredAfterActivation ==
  /\ pc = "firing" => \A i \in Pos : act[i].asyncOp # "pending"
  /\ initResult.st = "resolved" =>
       \A k \in DOMAIN initializeListeners : k \in Range(fired)

\* C7: with an allow-list, an entry point is invoked only for a candidate that
\* is named in the list and not disabled; once the activation is over every such
\* candidate has been invoked, and a rejection names a candidate of the list.
C7_MergedDisabled(d) ==
  LET key == ToLowerCase(Name(d))
      ns == IF key \in DOMAIN options.ns THEN options.ns[key] ELSE EmptyOpts
      o == [k \in DOMAIN extOptions[d] \cup DOMAIN ns |->
              IF k \in DOMAIN ns THEN ns[k] ELSE extOptions[d][k]]
  IN "enabled" \in DOMAIN o /\ o["enabled"] = FALSE

C7_Selected(d) ==
  Name(d) \in Range(options.extensions) /\ ~C7_MergedDisabled(d)

C7_AllowList ==
  options.extensions # Undefined =>
    /\ \A d \in InvokedExts : d \in Range(candidates) /\ C7_Selected(d)
    /\ ActivationDone =>
         \A d \in Range(candidates) : C7_Selected(d) => d \in InvokedExts
    /\ initResult.st = "rejected" =>
         initResult.err.name \in Range(options.extensions)

\* the allow-list dropped an enabled candidate and let another one be activated
C7_Witness ==
  /\ options.extensions # Undefined /\ ActivationDone
  /\ initResult.st = "resolved"
  /\ \E d \in Range(candidates), e \in InvokedExts :
       /\ Name(d) \notin Range(options.extensions)
       /\ ~C7_MergedDisabled(d)
       /\ d \notin InvokedExts
       /\ C7_Selected(e)

\* C8: the options an entry point is invoked with have exactly the keys of the
\* extension's default options and of the runtime namespace of its lower-cased
\* name; a key of the namespace has the runtime value, any other key its default.
C8_RuntimeNamespace(d) ==
  LET key == ToLowerCase(Name(d))
  IN IF key \in DOMAIN options.ns THEN options.ns[key] ELSE EmptyOpts

C8_ConfigMerge ==
  \A i \in InvokedSet :
    LET d == act[i].ext
        w == act[i].with
        ns == C8_RuntimeNamespace(d)
        def == DefaultOptions(d)
    IN /\ DOMAIN w = DOMAIN def \cup DOMAIN ns
       /\ \A k \in DOMAIN ns : w[k] = ns[k]
       /\ \A k \in DOMAIN def \ DOMAIN ns : w[k] = def[k]

\* an entry point was invoked with a default overridden and another default kept
C8_Witness ==
  \E i \in InvokedSet :
    LET d == act[i].ext
        ns == C8_RuntimeNamespace(d)
        def == DefaultOptions(d)
    IN /\ \E k \in DOMAIN ns \cap DOMAIN def : ns[k] # def[k] /\ act[i].with[k] = ns[k]
       /\ \E k \in DOMAIN def \ DOMAIN ns : act[i].with[k] = def[k]

\* C9: when init() is over, an entry point that threw or whose returned
\* operation rejected has made init() reject with a message that names a failed
\* extension and carries the failure detail.
C9_Failed(i) == act[i].outcome = "throw" \/ act[i].asyncOp = "rejected"

C9_FailureReported ==
  (Quiet /\ \E i \in Pos : C9_Failed(i)) =>
    /\ initResult.st = "rejected"
    /\ initResult.err.detail # ""
    /\ \E i \in Pos : C9_Failed(i) /\ initResult.err.name = Name(act[i].ext)

\* C10: 'extension:registered' is emitted for a descriptor no more often than
\* its activation has completed successfully (entry point returned, returned
\* operation resolved), and once per successful activation when init() is over.
C10_Succeeded(d) ==
  { i \in Pos : /\ act[i].ext = d
                /\ act[i].outcome \in {"ok", "async"}
                /\ act[i].asyncOp \in {"none", "resolved"} }

C10_RegisteredOnSuccess ==
  \A d \in Ext :
    /\ Count(registered, d) <= Cardinality(C10_Succeeded(d))
    /\ Quiet => Count(registered, d) = Cardinality(C10_Succeeded(d))

\* C11: when init() is over, 'extension:registered' has been emitted for every
\* descriptor that was skipped because its merged options have enabled = false.
C11_SkipNotified ==
  Quiet => \A i \in Pos : act[i].st = "skipped" => act[i].ext \in Range(registered)

\* C12: within one init() call no descriptor has its entry point invoked more
\* than once, whatever use() calls were made before.
C12_NoDuplicateActivation ==
  \A i \in InvokedSet, j \in InvokedSet : i # j => act[i].ext # act[j].ext

\* C13: when the filtered candidates contain a dependency cycle, the activation
\* list is a permutation of them (every candidate as often as it was handed in),
\* and once the activation is over every member that is not disabled was invoked.
C13_Filtered == FilterAllowed(options, candidates)

C13_CycleSafety ==
  (act # <<>> /\ HasCycle(Range(C13_Filtered))) =>
    /\ Len(availableExtensions) = Len(C13_Filtered)
    /\ \A d \in Ext : Count(availableExtensions, d) = Count(C13_Filtered, d)
    /\ ActivationDone =>
         \A i \in Pos : ~IsDisabled(act[i].merged) => i \in InvokedSet

\* two descriptors that depend on each other were both invoked, once each
C13_Witness ==
  /\ HasCycle(Range(C13_Filtered))
  /\ \E i \in InvokedSet, j \in InvokedSet :
       /\ DependsOn(act[i].ext, act[j].ext) /\ DependsOn(act[j].ext, act[i].ext)
       /\ Count(availableExtensions, act[i].ext) = 1
       /\ Count(availableExtensions, act[j].ext) = 1

\* C14: an init() that finds the named configuration file missing rejects at
\* once: no entry point is invoked, no deferred initializer is fired, and the
\* step leaves isInitialized, the readiness and the 'initialized' count alone.
C14_Missing(log) == log # <<>> /\ Head(log) = "missing"

C14_MissingConfigFile ==
  /\ [](C14_Missing(configLog) =>
          (/\ initResult.st = "rejected" /\ initResult.err.name = "config"
           /\ pc = "idle"
           /\ invoked = <<>> /\ fired = <<>> /\ act = <<>>))
  /\ [][(inits' # inits /\ C14_Missing(configLog'))
          => UNCHANGED << initialized, isReady, emitted >>]_vars

\* init() was rejected for a missing file although an enabled extension is used
C14_Witness ==
  /\ C14_Missing(configLog) /\ initResult.st = "rejected"
  /\ options.loadConfig /\ options.configFile # ""
  /\ 1 \in Range(usedExtensions)

\* C15: an init() invokes an afterConfigLoaded callback only when configuration
\* loading is enabled, exactly once when the configuration was loaded, after the
\* loading and before any entry point; it is the most recently assigned one.
C15_Called(log) == SelectSeq(log, LAMBDA e : e \in ConfigCallbacks \cup {"default"})

C15_AfterConfigLoaded ==
  /\ [](/\ (C15_Called(configLog) # <<>>) => options.loadConfig
        /\ (configLog # <<>> /\ Head(configLog) = "load")
             => (Len(configLog) = 2 /\ Len(C15_Called(configLog)) = 1))
  /\ [][(inits' # inits) =>
          /\ invoked' = <<>>
          /\ (C15_Called(configLog') # <<>>)
               => (C15_Called(configLog') = << lastAssigned >>)]_vars

\* the configuration was loaded, the assigned callback and an entry point ran
C15_Witness ==
  /\ configLog = << "load", "f2" >>
  /\ invoked # <<>>

\* C16: a ready() callback is never invoked inside the ready() call nor before
\* the instance is initialized, never twice, and on an initialized instance
\* every registered callback has been invoked once the job queue is empty.
C16_ReadyOnce ==
  /\ [](/\ \A k \in Range(readyCalled) :
             k \in 1..readyCallbacks /\ Count(readyCalled, k) = 1
        /\ (readyCalled # <<>>) => initialized
        /\ (initialized /\ microtasks = <<>>) => (Range(readyCalled) = 1..readyCallbacks))
  /\ [][(readyCallbacks' # readyCallbacks) => (readyCalled' = readyCalled)]_vars

\* a callback registered before the initialization has run, and one registered
\* on the initialized instance during a later init() waits in the job queue
C16_Witness ==
  /\ initialized /\ pc # "idle"
  /\ readyCalled = << 1 >> /\ readyCallbacks = 2
  /\ microtasks = << Job("ready", 2, 0) >>

\* C17: when the Discovery Scanner runs after discover(p) with a path p, the
\* roots it is given are exactly p.
C17_DiscoverPathIsRoot ==
  (pc = "discovering" /\ discoverSetting[1] = "s")
    => options.discover = JsArr(<< discoverSetting >>)

\* C18: the listeners of 'initialized' see isInitialized true.
C18_ListenersSeeInitialized == observed # "false"

\* C19: a rejection of ExtensionsManager.init() rejects init() with the same
\* error, without firing a deferred initializer; 'initialized', isInitialized
\* and the readiness change only in a step that resolves init(), and a ready()
\* callback runs only on an instance that is initialized.
C19_FailurePropagates ==
  /\ [](/\ (all.state = "rejected") => (fired = <<>> /\ pc \in {"activating", "idle"})
        /\ (all.state = "rejected" /\ pc = "idle")
             => (initResult.st = "rejected" /\ initResult.err = all.err))
  /\ [][/\ (emitted' # emitted \/ initialized' # initialized \/ isReady' # isReady)
             => (initResult'.st = "resolved" /\ all.state = "fulfilled")
        /\ (readyCalled' # readyCalled) => initialized]_vars

\* init() was rejected by a failed activation on an instance with a deferred
\* initializer and a ready() callback waiting
C19_Witness ==
  /\ Quiet /\ initResult.st = "rejected" /\ all.state = "rejected"
  /\ ~initialized /\ emitted = 0
  /\ initializeListeners # <<>> /\ readyCallbacks > 0 /\ readyCalled = <<>>

\* C20: the Discovery Scanner runs only on an instance whose discover setting
\* (given to the constructor or to discover()) is true or a path.
C20_DiscoveryOnlyIfEnabled ==
  pc = "discovering" => Truthy(discoverSetting)

\* C21: a descriptor without a usable entry point has no entry point invoked
\* and no 'extension:registered' emitted; the rejection of its activation names
\* it, and when init() is over it has rejected with an error that names a failed
\* extension, this one if no other activation failed.
C21_Invalid(i) == act[i].outcome = "invalid"

C21_InvalidShape ==
  /\ \A i \in Pos :
       C21_Invalid(i) => (i \notin InvokedSet /\ act[i].ext \notin Range(registered))
  /\ \A m \in DOMAIN microtasks :
       microtasks[m].k = "allReject"
         => microtasks[m].err.name = Name(act[microtasks[m].i].ext)
  /\ \A i \in Pos :
       (Quiet /\ C21_Invalid(i)) =>
         /\ initResult.st = "rejected"
         /\ \E j \in Pos : act[j].st = "failed" /\ initResult.err.name = Name(act[j].ext)
         /\ (\A j \in Pos : act[j].st = "failed" => act[j].ext = act[i].ext)
              => initResult.err.name = Name(act[i].ext)

\* init() rejected naming the descriptor without entry point, next to an
\* extension that was activated and registered
C21_Witness ==
  /\ Quiet /\ initResult.st = "rejected"
  /\ registered # <<>>
  /\ \E i \in Pos : /\ C21_Invalid(i)
                     /\ initResult.err.name = Name(act[i].ext)
                     /\ initResult.err.detail = "undefined"

\* C22: once the instance is initialized it stays initialized, whatever use(),
\* discover(), ready(), afterConfigLoaded() and init() calls follow, a failing
\* init() included.
C22_TerminalInitialized == [][initialized => initialized']_vars

\* an initialized instance whose later init() was rejected, after two use()
\* calls, a ready() call, a discover() call and an afterConfigLoaded() call
C22_Witness ==
  /\ initialized /\ inits = 2
  /\ pc = "idle" /\ microtasks = <<>>
  /\ initResult.st = "rejected"
  /\ Len(usedExtensions) = 2
  /\ readyCallbacks > 0
  /\ discoverSetting[1] = "s"
  /\ fnAfterConfigLoaded \in ConfigCallbacks

\* C23: the options an entry point finds on its descriptor, and whether the
\* entry point is called at all, are those decided by the merge made when init()
\* started useMany(): a write of another entry point into the configuration
\* namespace of the extension, enabled = false included, changes neither. (An
\* entry point that disables its own descriptor is the subject of C24.)
C23_SelfDisabled(d) == \E k \in Pos : act[k].ext = d /\ act[k].outcome = "disable"

C23_DecidedBeforeEntryPoints ==
  /\ \A j \in InvokedSet :
       /\ ~UseOneSkips(act[j].merged)
       /\ (~C23_SelfDisabled(act[j].ext)) => (act[j].with = act[j].merged)
  /\ \A j \in Pos :
       (Quiet /\ ~UseOneSkips(act[j].merged)) => (act[j].outcome # "none")
  /\ \A j \in Pos :
       (act[j].st = "ok" /\ ~C23_SelfDisabled(act[j].ext))
         => (act[j].ext \in Range(registered))

\* an entry point disabled the namespace of a later extension, which was then
\* activated with its merged options and registered
C23_Witness ==
  \E i, j \in InvokedSet :
    /\ act[i].outcome = "write"
    /\ IndexIn(invoked, i) < IndexIn(invoked, j)
    /\ act[j].ext = WriteTarget
    /\ IsDisabled(Namespace(options, WriteTarget))
    /\ act[j].with = act[j].merged /\ ~IsDisabled(act[j].with)
    /\ act[j].st = "ok" /\ WriteTarget \in Range(registered)

\* C24: an extension whose entry point sets enabled = false on its own
\* descriptor's options is activated without error, no 'extension:registered' is
\* emitted for it, and it is not in the `extensions` view.
C24_SelfDisabling(i) == act[i].outcome = "disable"

C24_SelfDisabledUnregistered ==
  \A i \in Pos :
    C24_SelfDisabling(i) =>
      /\ act[i].st # "failed"
      /\ act[i].ext \notin Range(registered)
      /\ act[i].ext \notin Range(extensions)

\* the same for a descriptor that is in the activation list once
C24_ListedOnce ==
  \A i \in Pos :
    (C24_SelfDisabling(i) /\ \A j \in Pos : act[j].ext = act[i].ext => j = i) =>
      /\ act[i].st # "failed"
      /\ act[i].ext \notin Range(registered)
      /\ act[i].ext \notin Range(extensions)

\* a self-disabling extension listed once, activated to the end
C24_Witness ==
  \E i \in Pos :
    /\ C24_SelfDisabling(i) /\ act[i].st = "ok" /\ Quiet
    /\ \A j \in Pos : act[j].ext = act[i].ext => j = i

====
